---------------------------- MODULE Spec2Model ----------------------------
(***************************************************************************)
(* Model of src/app.py: a Streamlit script that logs a browser session in  *)
(* to Spotify (authorization-code flow), lists a playlist page by page,    *)
(* downloads each track on a best-effort basis and offers a zip archive.   *)
(*                                                                         *)
(* Streamlit re-executes the whole script on every interaction ("rerun").  *)
(* A rerun is modelled as a run of the script by one session: its first    *)
(* step is the script from line 145 up to the first remote page of the     *)
(* listing (routing, get_spotify_client, validation, cache lookup, first   *)
(* playlist_items request); every later remote request and every          *)
(* iteration of the download loop is a step of its own, so that sessions   *)
(* interleave and time passes between the steps of one run.                *)
(*                                                                         *)
(* Strings the script takes apart (URLs, track and artist names) are       *)
(* sequences of one-character strings.                                     *)
(*                                                                         *)
(* Spec is the application.  PureSpec examines limpar_nome and             *)
(* get_playlist_id on their own: a call is drawn from bounded sets of      *)
(* arguments (variable arg) and made (variable ret).                       *)
(*                                                                         *)
(* The libraries are taken at their contract: get_access_token exchanges   *)
(* the code, refresh_access_token refreshes, is_token_expired tells        *)
(* whether the expiry has passed, st.cache_data memoizes on the hashed     *)
(* parameters.  The variables ui and calls record what a run displayed and *)
(* which remote calls it made; they are cleared when the run is over.      *)
(***************************************************************************)
EXTENDS Integers, Sequences, FiniteSets, TLC

(***************************************************************************)
(* Bounds of the model.                                                    *)
(***************************************************************************)
\* The clock runs from 0 to MaxClock.
MaxClock == 2
\* Lifetime, in clock ticks, of an access token the identity provider issues.
TokenLifetime == 1
\* Largest value entered in the "maximum of tracks" number input.
MaxLimite == 3
\* The longest URL and the longest name given to the pure helpers.
MaxUrlLen == 5
MaxNameLen == 3

\* The browser tabs connected to the process.  A tab that loads the page
\* again gets a new session (NewSession): sessions of different users follow
\* one another on a tab while the process-wide state (the cache, the
\* providers, the clock) lives on.
Sessions == {"s1"}

\* Authorization codes the identity provider has issued (one per user login).
Codes == {"c1", "c2"}
\* What the "code" query parameter may hold: an issued code (fresh, or already
\* exchanged and so no longer valid) or the empty string.
QueryCodes == Codes \cup {""}
\* 'code' not in st.query_params
NoCode == "<absent>"

(***************************************************************************)
(* Credentials.  token_info is the dictionary spotipy returns; the access  *)
(* token is identified by the authorization it belongs to and its time of  *)
(* issue.                                                                  *)
(***************************************************************************)
Token(c, t) ==
    [access_token |-> <<c, t>>, refresh_token |-> c, expires_at |-> t + TokenLifetime]

\* Whether, at time t, the provider no longer accepts access token tok.
PastExpiry(tok, t) == tok[2] + TokenLifetime <= t

\* 'token_info' not in st.session_state
NoToken == [access_token |-> <<"none", 0>>, refresh_token |-> "none", expires_at |-> 0]
\* The identity provider's call raised (SpotifyOauthError, network error).
Failure == [access_token |-> <<"error", 0>>, refresh_token |-> "error", expires_at |-> 0]
\* No spotipy.Spotify client was built.
NoClient == <<"none", 0>>

(***************************************************************************)
(* Pure helpers.                                                           *)
(***************************************************************************)
\* The characters of the class [\\/*?:"<>|] of limpar_nome.
ReservedChars == {"\\", "/", "*", "?", ":", "\"", "<", ">", "|"}

\* A sanitizer whose class lacks the slash.
limpar_nome_KeepsSlash(nome) ==
    SelectSeq(nome, LAMBDA ch : ch \notin (ReservedChars \ {"/"}))

\* limpar_nome: re.sub(r'[\\/*?:"<>|]', "", nome)
limpar_nome(nome) == SelectSeq(nome, LAMBDA ch : ch \notin ReservedChars)

\* s.split(sep)[-1]: what follows the last sep, all of s when there is none.
SplitLast(s, sep) ==
    LET idx == {k \in 1..Len(s) : s[k] = sep}
    IN  IF idx = {} THEN s
        ELSE LET m == CHOOSE k \in idx : \A j \in idx : j <= k
             IN  SubSeq(s, m + 1, Len(s))

\* s.split(sep)[0]: what precedes the first sep, all of s when there is none.
SplitFirst(s, sep) ==
    LET idx == {k \in 1..Len(s) : s[k] = sep}
    IN  IF idx = {} THEN s
        ELSE LET m == CHOOSE k \in idx : \A j \in idx : k <= j
             IN  SubSeq(s, 1, m - 1)

\* get_playlist_id on a string: url.split('/')[-1].split('?')[0]
get_playlist_id(url) == SplitFirst(SplitLast(url, "/"), "?")

\* Python values given to and returned by the helpers: a str with its
\* characters, None, an int, a bytes object; and an exception leaving the
\* function.
Str(s) == [kind |-> "str", s |-> s]
None == [kind |-> "none", s |-> <<>>]
AnInt == [kind |-> "int", s |-> <<>>]
SomeBytes == [kind |-> "bytes", s |-> <<"a">>]
Raised(e) == [kind |-> "raise", s |-> <<e>>]

\* lines 23-28 on any value: a str is split; a value without a split method
\* raises AttributeError, which line 27 catches; bytes.split('/') raises
\* TypeError (the separator is a str), which line 27 does not catch.
get_playlist_id_call(v) ==
    IF v.kind = "str" THEN Str(get_playlist_id(v.s))
    ELSE IF v.kind = "bytes" THEN Raised("TypeError")
    ELSE None

\* lines 19-21 on a str.
limpar_nome_call(v) == Str(limpar_nome(v.s))

\* All sequences of at most n elements of chars.
RECURSIVE Strings(_, _)
Strings(chars, n) ==
    IF n = 0 THEN {<<>>}
    ELSE LET shorter == Strings(chars, n - 1)
         IN  shorter \cup
             {Append(w, c) : w \in {x \in shorter : Len(x) = n - 1}, c \in chars}

\* The URLs given to get_playlist_id: the two separators it splits on, a
\* letter, and the path segment "playlist" (which it never looks into)
\* as one element.
UrlChars == {"/", "?", "a", "playlist"}

\* The names given to limpar_nome: every character of its class, a letter
\* and a space.
NameChars == ReservedChars \cup {"a", " "}

\* The calls of the helpers that are examined on their own.
PureCalls ==
    [fn : {"get_playlist_id"},
     v : {Str(u) : u \in Strings(UrlChars, MaxUrlLen)} \cup {None, AnInt, SomeBytes}]
    \cup
    [fn : {"limpar_nome"}, v : {Str(n) : n \in Strings(NameChars, MaxNameLen)}]

\* No helper is being examined; no value has been returned yet.
NoCall == [fn |-> "none", v |-> None]
Pending == [kind |-> "pending", s |-> <<>>]


(***************************************************************************)
(* Playlist entries and the metadata provider's catalogue.                 *)
(***************************************************************************)
\* item['track'] is an object with a name and a first artist ...
T1 == [track |-> "obj", name |-> <<"x">>, artist |-> <<"A">>]
T2 == [track |-> "obj", name |-> <<"y", "?">>, artist |-> <<"B", "/">>]
\* ... or null (a removed track), or an object with an empty name.
TNull == [track |-> "null", name |-> <<>>, artist |-> <<>>]
TNoName == [track |-> "obj", name |-> <<>>, artist |-> <<"A">>]

\* What the user may type in the URL field.
Urls == { <<>>,
          <<"h", "/", "a">>,
          <<"h", "/", "b", "?", "q">>,
          <<"h", "/">> }

\* The playlists the provider knows, each a sequence of pages.
CatalogChoices ==
    { [a |-> << <<T1, TNull>>, <<T2>> >>,        b |-> << <<T1, T1>> >>],
      [a |-> << <<T2>>, <<>>, <<TNoName, T1>> >>, b |-> << <<>> >>] }

\* Playlist "a" is public; playlist "b" is private to the user who authorized
\* with this code (the application asks for the scope playlist-read-private).
PrivateOwner == "c1"

\* The identifier of a catalogue entry, as get_playlist_id returns it.
PlaylistKey(pid) ==
    IF pid = <<"a">> THEN "a" ELSE IF pid = <<"b">> THEN "b" ELSE "unknown"

\* Every identifier get_playlist_id can return on Urls.
PlaylistIds == {get_playlist_id(u) : u \in Urls}

(***************************************************************************)
(* State.                                                                  *)
(***************************************************************************)
VARIABLES
    now,           \* the clock
    grants,        \* identity provider: successful exchanges per issued code
    catalog,       \* metadata provider: the pages of each playlist
    cache,         \* st.cache_data store of get_todas_as_musicas
    token_info,    \* st.session_state['token_info'] of each session
    query_params,  \* st.query_params['code'] of each session
    exchanges,     \* per session: successful exchanges, and exchange calls
                   \* made after the first of them
    pc,            \* per session: where its current run of the script is
    loc,           \* per session: the local variables of its current run
    ui,            \* per session: what its current (or last) run displayed
    calls,         \* per session: the remote calls of its current (or last) run
    arg,           \* the helper examined on its own and the value given to it
    ret            \* what that helper returned or raised

vars == <<now, grants, catalog, cache, token_info, query_params, exchanges,
          pc, loc, ui, calls, arg, ret>>

NoArchive == [offered |-> FALSE, dir |-> "none", name |-> <<>>, entries |-> <<>>]

\* The locals of a run that is not in progress.
IdleLoc ==
    [sp |-> NoClient, playlist_id |-> <<>>, limite |-> 0, musicas |-> <<>>,
     next_page |-> 0, todas |-> <<>>, todo |-> <<>>, i |-> 0,
     arquivos |-> <<>>, temp_dir |-> FALSE]

\* The display of a run that has just started on `page`.
NewUi(page) ==
    [page |-> page, errors |-> {}, warnings |-> <<>>, statuses |-> <<>>,
     progress |-> <<>>, archive |-> NoArchive, crashed |-> FALSE,
     raised |-> "none"]


\* The calls of a run that has just left get_spotify_client with result r:
\* the exchange and refresh calls it made, whether the credential stored
\* before the run was past its expiry, the access token of the client it
\* built and whether that token was still valid then.
NewCalls(stored, r) ==
    [exchange |-> r.exchange, refresh |-> r.refresh,
     expired |-> stored # NoToken /\ PastExpiry(stored.access_token, now),
     client |-> r.sp, fresh |-> ~PastExpiry(r.sp, now), meta_tokens |-> {},
     stale_use |-> FALSE, pages_fetched |-> 0, from_cache |-> FALSE]

\* The calls of a run that made none.
NoCalls ==
    [exchange |-> "none", refresh |-> "none", expired |-> FALSE,
     client |-> NoClient, fresh |-> TRUE, meta_tokens |-> {},
     stale_use |-> FALSE, pages_fetched |-> 0, from_cache |-> FALSE]

NoCacheEntry == [present |-> FALSE, value |-> <<>>, error |-> FALSE]

InitApp ==
    /\ now = 0
    /\ grants = [c \in Codes |-> 0]
    /\ catalog \in CatalogChoices
    /\ cache = [p \in PlaylistIds |-> NoCacheEntry]
    /\ token_info = [s \in Sessions |-> NoToken]
    /\ query_params = [s \in Sessions |-> NoCode]
    /\ exchanges = [s \in Sessions |-> [ok |-> 0, late |-> 0]]
    /\ pc = [s \in Sessions |-> "idle"]
    /\ loc = [s \in Sessions |-> IdleLoc]
    /\ ui = [s \in Sessions |-> NewUi("none")]
    /\ calls = [s \in Sessions |-> NoCalls]

\* The application: no helper is examined on its own.
Init == InitApp /\ arg = NoCall /\ ret = Pending

(***************************************************************************)
(* The identity provider.                                                  *)
(***************************************************************************)
\* auth_manager.get_access_token(code): an issued code is exchanged at most
\* once by the provider; any call may fail.
ExchangeOutcomes(code) ==
    {Failure} \cup
    (IF code \in Codes /\ grants[code] = 0 THEN {Token(code, now)} ELSE {})

\* auth_manager.refresh_access_token(refresh_token): a new credential of the
\* same authorization, or a failure.
RefreshOutcomes(ti) ==
    IF ti = NoToken THEN {Failure}
    ELSE {Failure, Token(ti.refresh_token, now)}

\* auth_manager.is_token_expired(token_info)
is_token_expired(ti, t) == ti.expires_at <= t

(***************************************************************************)
(* get_spotify_client, lines 47-81.                                        *)
(***************************************************************************)
\* Mutant of NeedsExchange: the stored credential is not looked at.
NeedsExchange_Always(ti) == TRUE

\* line 55: 'token_info' not in st.session_state
NeedsExchange(ti) == ti = NoToken

\* line 66: st.session_state['token_info'] = token_info
StoreExchanged(ti, new) == new

\* line 68: st.query_params.clear()
ClearQueryParams(qp) == NoCode

\* Mutant of StoreRefreshed: the refreshed credential is not stored.
StoreRefreshed_KeepsOld(ti, new) == ti

\* line 77: st.session_state['token_info'] = refreshed_token_info
StoreRefreshed(ti, new) == new

\* Mutant of ExchangeRaised: the failed call's result is stored as the
\* credential and the function goes on.
ExchangeRaised_Swallowed(base) ==
    [base EXCEPT !.exchange = "fail", !.token_info = Token("error", 0)]

\* line 65 when get_access_token raises: the exception leaves the function
\* before anything is stored.
ExchangeRaised(base) == [base EXCEPT !.result = "raise", !.exchange = "fail"]

\* lines 55-71, with ex the outcome of the exchange call if one is made.
ExchangeStep(ti, qp, ex) ==
    LET base == [token_info |-> ti, query_params |-> qp, result |-> "ok",
                 sp |-> NoClient, exchange |-> "none", refresh |-> "none"]
    IN  IF ~NeedsExchange(ti) THEN base
        ELSE IF qp = NoCode \/ qp = "" THEN [base EXCEPT !.result = "stop"]
        ELSE IF ex = Failure THEN ExchangeRaised(base)
        ELSE [base EXCEPT !.token_info = StoreExchanged(ti, ex),
                          !.query_params = ClearQueryParams(qp),
                          !.exchange = "ok"]

\* lines 73-81, with rf the outcome of the refresh call if one is made.
RefreshStep(r, rf, t) ==
    IF r.result # "ok" THEN r
    ELSE IF ~is_token_expired(r.token_info, t)
           THEN [r EXCEPT !.sp = r.token_info.access_token]
    ELSE IF rf = Failure
           THEN [r EXCEPT !.result = "raise", !.refresh = "fail"]
    ELSE [r EXCEPT !.token_info = StoreRefreshed(r.token_info, rf),
                   !.sp = rf.access_token, !.refresh = "ok"]

get_spotify_client(ti, qp, ex, rf, t) == RefreshStep(ExchangeStep(ti, qp, ex), rf, t)

\* The exchange outcomes a run of session s may meet (one dummy outcome when
\* the run makes no exchange call).
ExchangeChoices(s) ==
    IF NeedsExchange(token_info[s]) /\ query_params[s] \notin {NoCode, ""}
    THEN ExchangeOutcomes(query_params[s])
    ELSE {Failure}

\* The refresh outcomes a run of session s may meet after exchange outcome ex.
RefreshChoices(s, ex) ==
    LET r == ExchangeStep(token_info[s], query_params[s], ex)
    IN  IF r.result = "ok" /\ is_token_expired(r.token_info, now)
        THEN RefreshOutcomes(r.token_info)
        ELSE {Failure}

\* The effect of get_spotify_client's result r on the session and on the
\* identity provider.
Authenticate(s, r) ==
    /\ token_info' = [token_info EXCEPT ![s] = r.token_info]
    /\ query_params' = [query_params EXCEPT ![s] = r.query_params]
    /\ exchanges' = [exchanges EXCEPT ![s] =
                       [ok |-> @.ok + (IF r.exchange = "ok" THEN 1 ELSE 0),
                        late |-> @.late + (IF r.exchange # "none" /\ @.ok > 0
                                           THEN 1 ELSE 0)]]
    /\ grants' = IF r.exchange = "ok"
                 THEN [grants EXCEPT ![query_params[s]] = @ + 1]
                 ELSE grants

(***************************************************************************)
(* The environment.                                                        *)
(***************************************************************************)
\* receive_auth_code: the URL of session s comes to hold ?code=c while the
\* session lives on (the redirect of the identity provider; the browser going
\* back in its history to the URL that line 68 replaced).  The script reads
\* it at lines 58 and 149 of its next run.
receive_auth_code(s, c) ==
    /\ pc[s] = "idle"
    /\ query_params[s] # c
    /\ query_params' = [query_params EXCEPT ![s] = c]
    /\ UNCHANGED <<arg, ret>>
    /\ UNCHANGED <<now, grants, catalog, cache, token_info, exchanges, pc, loc,
                   ui, calls>>

\* The tab of session s loads the page with query string q: Streamlit starts
\* a new session, with an empty st.session_state, in its place.
NewSession(s, q) ==
    /\ pc[s] = "idle"
    /\ token_info[s] # NoToken \/ ui[s].page # "none"
    /\ token_info' = [token_info EXCEPT ![s] = NoToken]
    /\ query_params' = [query_params EXCEPT ![s] = q]
    /\ exchanges' = [exchanges EXCEPT ![s] = [ok |-> 0, late |-> 0]]
    /\ ui' = [ui EXCEPT ![s] = NewUi("none")]
    /\ UNCHANGED <<arg, ret>>
    /\ UNCHANGED <<now, grants, catalog, cache, pc, loc, calls>>

\* Time passes.
Tick ==
    /\ now < MaxClock
    /\ now' = now + 1
    /\ UNCHANGED <<arg, ret>>
    /\ UNCHANGED <<grants, catalog, cache, token_info, query_params, exchanges,
                   pc, loc, ui, calls>>

(***************************************************************************)
(* The metadata provider and the track source.                             *)
(***************************************************************************)
\* The pages of playlist pid as the provider serves them to access token
\* tok: none when it does not know the playlist or the playlist is private
\* to another user.
PlaylistPages(tok, pid) ==
    IF PlaylistKey(pid) = "a" THEN catalog.a
    ELSE IF PlaylistKey(pid) = "b" /\ tok[1] = PrivateOwner THEN catalog.b
    ELSE <<>>

\* The request raised (not found, forbidden, expired token, network).
PageFailure == [items |-> <<>>, next |-> FALSE, error |-> TRUE]

\* _sp.playlist_items(playlist_id) for k = 1, _sp.next(resultados) for the
\* k-th page: the page, or a failure.
PageOutcomes(tok, pid, k) ==
    {PageFailure} \cup
    (IF k <= Len(PlaylistPages(tok, pid))
     THEN {[items |-> PlaylistPages(tok, pid)[k],
            next |-> k < Len(PlaylistPages(tok, pid)),
            error |-> FALSE]}
     ELSE {})

\* sp.playlist(playlist_id)['name']
PlaylistTitle(pid) == <<"M", ":">> \o pid

\* What the search and the extraction of one track may do.
AcquireOutcomes == {"ok", "not_found", "raises"}

(***************************************************************************)
(* get_todas_as_musicas, lines 96-108, under st.cache_data.                *)
(***************************************************************************)
\* The key st.cache_data hashes the call to: parameters whose name starts
\* with an underscore (_sp) are left out of it.
CacheKey(sp, pid) == pid

\* The entry stored when the function returns `value`.
CacheEntry(value, error) == [present |-> TRUE, value |-> value, error |-> error]

\* Mutant of ListingOnError: the pages retrieved so far are returned.
ListingOnError_Partial(musicas) == musicas

\* lines 106-108: what the function returns when a request raised.
ListingOnError(musicas) == <<>>

\* Mutant of Extend: the page replaces the pages before it.
Extend_Replaces(musicas, items) == items

\* line 104: musicas.extend(resultados['items'])
Extend(musicas, items) == musicas \o items

(***************************************************************************)
(* baixar_musica, lines 110-142.                                           *)
(***************************************************************************)
NoPath == [dir |-> "none", base |-> <<>>]

\* line 112: nome_arquivo_base
FileBase(nome, artista) == limpar_nome(artista) \o <<" - ">> \o limpar_nome(nome)

\* Mutant of baixar_musica: an exception of the search or the extraction
\* leaves the function.
baixar_musica_Propagates(nome, artista, pasta, outcome) ==
    IF outcome = "ok"
      THEN [caminho |-> [dir |-> pasta, base |-> FileBase(nome, artista) \o <<".mp3">>],
            status |-> "success", raised |-> FALSE]
    ELSE IF outcome = "not_found"
      THEN [caminho |-> NoPath, status |-> "not_found", raised |-> FALSE]
    ELSE [caminho |-> NoPath, status |-> "error", raised |-> TRUE]

\* The function's result on one outcome of the search and the extraction:
\* the path returned (NoPath for None), the status shown, and whether an
\* exception leaves the function.
baixar_musica(nome, artista, pasta, outcome) ==
    IF outcome = "ok"
      THEN [caminho |-> [dir |-> pasta, base |-> FileBase(nome, artista) \o <<".mp3">>],
            status |-> "success", raised |-> FALSE]
    ELSE IF outcome = "not_found"
      THEN [caminho |-> NoPath, status |-> "not_found", raised |-> FALSE]
    ELSE [caminho |-> NoPath, status |-> "error", raised |-> FALSE]

(***************************************************************************)
(* The script, lines 145-165: routing and authentication.                  *)
(***************************************************************************)
\* lines 149-151: no code in the URL, the login page is shown.
RunLogin(s) ==
    /\ pc[s] = "idle"
    /\ query_params[s] = NoCode
    /\ pc' = [pc EXCEPT ![s] = "done"]
    /\ ui' = [ui EXCEPT ![s] = NewUi("login")]
    /\ calls' = [calls EXCEPT ![s] = NoCalls]
    /\ UNCHANGED <<arg, ret>>
    /\ UNCHANGED <<now, grants, catalog, cache, token_info, query_params,
                   exchanges, loc>>

\* lines 155-159 (and 59-61, 69-71): get_spotify_client stops the script or
\* raises, the error is shown and the script stops.
RunAuthFail(s) ==
    /\ pc[s] = "idle"
    /\ query_params[s] # NoCode
    /\ \E ex \in ExchangeChoices(s) : \E rf \in RefreshChoices(s, ex) :
         LET r == get_spotify_client(token_info[s], query_params[s], ex, rf, now)
         IN  /\ r.result # "ok"
             /\ Authenticate(s, r)
             /\ ui' = [ui EXCEPT ![s] = [NewUi("stopped") EXCEPT !.errors = {"auth"}]]
             /\ calls' = [calls EXCEPT ![s] = NewCalls(token_info[s], r)]
    /\ pc' = [pc EXCEPT ![s] = "done"]
    /\ UNCHANGED <<arg, ret>>
    /\ UNCHANGED <<now, catalog, cache, loc>>

\* lines 155-176: the client is built and the page is drawn; the button was
\* not clicked.
RunRender(s) ==
    /\ pc[s] = "idle"
    /\ query_params[s] # NoCode
    /\ \E ex \in ExchangeChoices(s) : \E rf \in RefreshChoices(s, ex) :
         LET r == get_spotify_client(token_info[s], query_params[s], ex, rf, now)
         IN  /\ r.result = "ok"
             /\ Authenticate(s, r)
             /\ ui' = [ui EXCEPT ![s] = NewUi("main")]
             /\ calls' = [calls EXCEPT ![s] = NewCalls(token_info[s], r)]
    /\ pc' = [pc EXCEPT ![s] = "done"]
    /\ UNCHANGED <<arg, ret>>
    /\ UNCHANGED <<now, catalog, cache, loc>>

(***************************************************************************)
(* The script, lines 176-233: the orchestrator.                            *)
(***************************************************************************)
\* todas[:n]
Take(todas, n) == SubSeq(todas, 1, IF n < Len(todas) THEN n ELSE Len(todas))

\* A selection that ignores the cap.
Selected_Uncapped(todas, limite) == todas


\* lines 188-190: musicas_a_processar
Selected(todas, limite) == IF limite > 0 THEN Take(todas, limite) ELSE todas

\* A metadata request made with access token tok is added to the calls c of
\* the run.
MetaRequest(c, tok) ==
    [c EXCEPT !.meta_tokens = @ \cup {tok},
              !.stale_use = @ \/ PastExpiry(tok, now)]

\* lines 184-198: what the run does with the listing `todas` that
\* get_todas_as_musicas returned to it: its next position and locals.
AfterListing(l, todas) ==
    IF todas # <<>> /\ Len(Selected(todas, l.limite)) > 0
    THEN [pc |-> "loop",
          loc |-> [l EXCEPT !.todas = todas, !.todo = Selected(todas, l.limite),
                            !.i = 0, !.arquivos = <<>>, !.temp_dir = TRUE,
                            !.musicas = <<>>, !.next_page = 0]]
    ELSE [pc |-> "done",
          loc |-> [l EXCEPT !.todas = todas, !.musicas = <<>>, !.next_page = 0]]

\* lines 176-179: the button was clicked and the URL field holds no playlist.
RunInvalidUrl(s) ==
    /\ pc[s] = "idle"
    /\ query_params[s] # NoCode
    /\ ui[s].page = "main"
    /\ \E ex \in ExchangeChoices(s) : \E rf \in RefreshChoices(s, ex) :
       \E url \in Urls :
         LET r == get_spotify_client(token_info[s], query_params[s], ex, rf, now)
         IN  /\ r.result = "ok"
             /\ url = <<>> \/ get_playlist_id(url) = <<>>
             /\ Authenticate(s, r)
             /\ ui' = [ui EXCEPT ![s] = [NewUi("main") EXCEPT !.errors = {"validation"}]]
             /\ calls' = [calls EXCEPT ![s] = NewCalls(token_info[s], r)]
    /\ pc' = [pc EXCEPT ![s] = "done"]
    /\ UNCHANGED <<arg, ret>>
    /\ UNCHANGED <<now, catalog, cache, loc>>

\* lines 176-198, the listing served by st.cache_data: the stored value is
\* returned (and the error the stored call displayed is displayed again).
RunCached(s) ==
    /\ pc[s] = "idle"
    /\ query_params[s] # NoCode
    /\ ui[s].page = "main"
    /\ \E ex \in ExchangeChoices(s) : \E rf \in RefreshChoices(s, ex) :
       \E url \in Urls : \E limite \in 0..MaxLimite :
         LET r == get_spotify_client(token_info[s], query_params[s], ex, rf, now)
             pid == get_playlist_id(url)
             e == cache[CacheKey(r.sp, pid)]
             l == [IdleLoc EXCEPT !.sp = r.sp, !.playlist_id = pid, !.limite = limite]
             a == AfterListing(l, e.value)
         IN  /\ r.result = "ok"
             /\ url # <<>> /\ pid # <<>>
             /\ e.present
             /\ Authenticate(s, r)
             /\ pc' = [pc EXCEPT ![s] = a.pc]
             /\ loc' = [loc EXCEPT ![s] = a.loc]
             /\ ui' = [ui EXCEPT ![s] =
                         [NewUi("main") EXCEPT
                            !.errors = IF e.error THEN {"listing"} ELSE {}]]
             /\ calls' = [calls EXCEPT ![s] =
                            [NewCalls(token_info[s], r) EXCEPT !.from_cache = TRUE]]
    /\ UNCHANGED <<arg, ret>>
    /\ UNCHANGED <<now, catalog, cache>>

\* The run of session s, with locals l and calls c, receives page pg as the
\* answer to the request number n of its listing (lines 99-108 and what
\* follows the return of get_todas_as_musicas).
ReceivePage(s, l, c, u, pg, n) ==
    LET c1 == [MetaRequest(c, l.sp) EXCEPT !.pages_fetched = n]
        key == CacheKey(l.sp, l.playlist_id)
        musicas == Extend(l.musicas, pg.items)
    IN  IF pg.error
        THEN /\ cache' = [cache EXCEPT ![key] =
                   CacheEntry(ListingOnError(l.musicas), TRUE)]
             /\ pc' = [pc EXCEPT ![s] =
                   AfterListing(l, ListingOnError(l.musicas)).pc]
             /\ loc' = [loc EXCEPT ![s] =
                   AfterListing(l, ListingOnError(l.musicas)).loc]
             /\ ui' = [ui EXCEPT ![s] = [u EXCEPT !.errors = @ \cup {"listing"}]]
             /\ calls' = [calls EXCEPT ![s] = c1]
        ELSE IF pg.next
        THEN /\ pc' = [pc EXCEPT ![s] = "listing"]
             /\ loc' = [loc EXCEPT ![s] =
                   [l EXCEPT !.musicas = musicas, !.next_page = n + 1]]
             /\ ui' = [ui EXCEPT ![s] = u]
             /\ calls' = [calls EXCEPT ![s] = c1]
             /\ UNCHANGED cache
        ELSE /\ cache' = [cache EXCEPT ![key] =
                   CacheEntry(musicas, FALSE)]
             /\ pc' = [pc EXCEPT ![s] = AfterListing(l, musicas).pc]
             /\ loc' = [loc EXCEPT ![s] = AfterListing(l, musicas).loc]
             /\ ui' = [ui EXCEPT ![s] = u]
             /\ calls' = [calls EXCEPT ![s] = c1]

\* lines 176-198, the listing not in the cache: get_todas_as_musicas runs
\* and makes its first request.
RunListing(s) ==
    /\ pc[s] = "idle"
    /\ query_params[s] # NoCode
    /\ ui[s].page = "main"
    /\ \E ex \in ExchangeChoices(s) : \E rf \in RefreshChoices(s, ex) :
       \E url \in Urls : \E limite \in 0..MaxLimite :
         LET r == get_spotify_client(token_info[s], query_params[s], ex, rf, now)
             pid == get_playlist_id(url)
             l == [IdleLoc EXCEPT !.sp = r.sp, !.playlist_id = pid, !.limite = limite]
         IN  /\ r.result = "ok"
             /\ url # <<>> /\ pid # <<>>
             /\ ~cache[CacheKey(r.sp, pid)].present
             /\ Authenticate(s, r)
             /\ \E pg \in PageOutcomes(r.sp, pid, 1) :
                  ReceivePage(s, l, NewCalls(token_info[s], r), NewUi("main"), pg, 1)
    /\ UNCHANGED <<arg, ret>>
    /\ UNCHANGED <<now, catalog>>

\* lines 102-108: the next page is requested.
NextPage(s) ==
    /\ pc[s] = "listing"
    /\ \E pg \in PageOutcomes(loc[s].sp, loc[s].playlist_id, loc[s].next_page) :
         ReceivePage(s, loc[s], calls[s], ui[s], pg, loc[s].next_page)
    /\ UNCHANGED <<arg, ret>>
    /\ UNCHANGED <<now, grants, catalog, token_info, query_params, exchanges>>

\* A loop that tests only `musica` at line 202.
IsValidTrack_AnyObject(item) == item.track # "null"

\* line 202: musica and musica.get('name')
IsValidTrack(item) == item.track # "null" /\ item.name # <<>>

\* A progress bar that shows the index of the entry.
ProgressValue_FromZero(i, total) == <<i, total>>

\* line 210: (i + 1) / total_a_baixar, as numerator and denominator.
ProgressValue(i, total) == <<i + 1, total>>

\* lines 200-211: one iteration of the download loop.
ProcessItem(s) ==
    /\ pc[s] = "loop"
    /\ LET l == loc[s]
           item == l.todo[l.i + 1]
           total == Len(l.todo)
       IN  \E outcome \in (IF IsValidTrack(item) THEN AcquireOutcomes ELSE {"skip"}) :
             LET r == IF IsValidTrack(item)
                      THEN baixar_musica(item.name, item.artist, "tmp", outcome)
                      ELSE [caminho |-> NoPath, status |-> "skipped", raised |-> FALSE]
             IN  IF r.raised
                 THEN /\ pc' = [pc EXCEPT ![s] = "release"]
                      /\ loc' = [loc EXCEPT ![s] = l]
                      /\ ui' = [ui EXCEPT ![s] =
                            [@ EXCEPT !.crashed = TRUE, !.raised = "acquire"]]
                 ELSE /\ pc' = [pc EXCEPT ![s] =
                                  IF l.i + 1 < total THEN "loop" ELSE "archive"]
                      /\ loc' = [loc EXCEPT ![s] =
                            [l EXCEPT !.i = @ + 1,
                                      !.arquivos = IF r.caminho # NoPath
                                                   THEN Append(@, r.caminho) ELSE @]]
                      /\ ui' = [ui EXCEPT ![s] =
                            [@ EXCEPT !.statuses = Append(@, r.status),
                                      !.warnings = IF IsValidTrack(item) THEN @
                                                   ELSE Append(@, l.i + 1),
                                      !.progress = Append(@, ProgressValue(l.i, total))]]
    /\ UNCHANGED <<arg, ret>>
    /\ UNCHANGED <<now, grants, catalog, cache, token_info, query_params,
                   exchanges, calls>>

\* os.path.basename of each downloaded file, in the order written.
ArchiveEntries(arquivos) == [k \in 1..Len(arquivos) |-> arquivos[k].base]

\* A run that archives whatever the list holds.
NothingDownloaded_Never(arquivos) == FALSE

\* line 213: not arquivos_baixados
NothingDownloaded(arquivos) == arquivos = <<>>

\* What lines 217-222 can do: the title request (line 217) raises, the
\* archive write (lines 220-222) raises, or both succeed.
ArchiveOutcomes == {"ok", "title_raises", "write_raises"}

\* lines 213-233: nothing to archive, or the title request, the archive
\* and the download button (which reads the bytes of the archive file it is
\* given); an exception of lines 217-222 leaves the block.
Finish(s) ==
    /\ pc[s] = "archive"
    /\ LET l == loc[s]
       IN  IF NothingDownloaded(l.arquivos)
           THEN /\ ui' = [ui EXCEPT ![s] = [@ EXCEPT !.errors = @ \cup {"nothing"}]]
                /\ UNCHANGED calls
           ELSE \E outcome \in ArchiveOutcomes :
                /\ calls' = [calls EXCEPT ![s] = MetaRequest(@, l.sp)]
                /\ ui' = [ui EXCEPT ![s] =
                      IF outcome = "ok"
                      THEN [@ EXCEPT !.archive =
                              [offered |-> TRUE,
                               dir |-> "tmp",
                               name |-> limpar_nome(PlaylistTitle(l.playlist_id)) \o <<".zip">>,
                               entries |-> ArchiveEntries(l.arquivos)]]
                      ELSE [@ EXCEPT !.crashed = TRUE,
                                     !.raised = IF outcome = "title_raises"
                                                THEN "title" ELSE "write"]]
    /\ pc' = [pc EXCEPT ![s] = "release"]
    /\ UNCHANGED <<arg, ret>>
    /\ UNCHANGED <<now, grants, catalog, cache, token_info, query_params,
                   exchanges, loc>>

\* A block whose exit leaves the directory in place.
ScopeExit_Leaks(temp_dir) == temp_dir

\* line 198: TemporaryDirectory.__exit__ removes the directory.
ScopeExit(temp_dir) == FALSE

\* line 198: the run leaves the `with tempfile.TemporaryDirectory()` block,
\* normally or with the exception that is passing through it.
ReleaseScope(s) ==
    /\ pc[s] = "release"
    /\ pc' = [pc EXCEPT ![s] = "done"]
    /\ loc' = [loc EXCEPT ![s] = [@ EXCEPT !.temp_dir = ScopeExit(@)]]
    /\ UNCHANGED <<arg, ret>>
    /\ UNCHANGED <<now, grants, catalog, cache, token_info, query_params,
                   exchanges, ui, calls>>

\* The run is over: the session waits for the next interaction, showing the
\* page the run drew.
EndRun(s) ==
    /\ pc[s] = "done"
    /\ pc' = [pc EXCEPT ![s] = "idle"]
    /\ loc' = [loc EXCEPT ![s] = IdleLoc]
    /\ ui' = [ui EXCEPT ![s] = NewUi(ui[s].page)]
    /\ calls' = [calls EXCEPT ![s] = NoCalls]
    /\ UNCHANGED <<arg, ret>>
    /\ UNCHANGED <<now, grants, catalog, cache, token_info, query_params, exchanges>>

Next ==
    \/ Tick
    \/ \E s \in Sessions :
         \/ \E c \in QueryCodes \cup {NoCode} : receive_auth_code(s, c)
         \/ \E q \in QueryCodes \cup {NoCode} : NewSession(s, q)
         \/ RunLogin(s)
         \/ RunAuthFail(s)
         \/ RunRender(s)
         \/ RunInvalidUrl(s)
         \/ RunCached(s)
         \/ RunListing(s)
         \/ NextPage(s)
         \/ ProcessItem(s)
         \/ Finish(s)
         \/ ReleaseScope(s)
         \/ EndRun(s)

Spec == Init /\ [][Next]_vars

(***************************************************************************)
(* The pure helpers on their own: a call is drawn, then made.              *)
(***************************************************************************)
PureInit == InitApp /\ arg \in PureCalls /\ ret = Pending

\* lines 23-28
call_get_playlist_id ==
    /\ arg.fn = "get_playlist_id"
    /\ ret = Pending
    /\ ret' = get_playlist_id_call(arg.v)
    /\ UNCHANGED <<now, grants, catalog, cache, token_info, query_params,
                   exchanges, pc, loc, ui, calls, arg>>

\* lines 19-21
call_limpar_nome ==
    /\ arg.fn = "limpar_nome"
    /\ ret = Pending
    /\ ret' = limpar_nome_call(arg.v)
    /\ UNCHANGED <<now, grants, catalog, cache, token_info, query_params,
                   exchanges, pc, loc, ui, calls, arg>>

PureNext == call_get_playlist_id \/ call_limpar_nome

PureSpec == PureInit /\ [][PureNext]_vars

(***************************************************************************)
(* Helpers of the properties.                                              *)
(***************************************************************************)
\* The concatenation of the pages, in order.
RECURSIVE Flatten(_)
Flatten(pages) ==
    IF pages = <<>> THEN <<>> ELSE Head(pages) \o Flatten(Tail(pages))

\* How many entries of seq equal x.
Count(seq, x) == Cardinality({k \in 1..Len(seq) : seq[k] = x})

\* The run of session s has received a listing from get_todas_as_musicas.
HasListing(s) ==
    pc[s] \in {"loop", "archive", "release", "done"} /\ loc[s].playlist_id # <<>>

(***************************************************************************)
(* Properties.                                                             *)
(***************************************************************************)
\* C1: a session that holds a stored credential is never shown the login
\* page.
C1_LoginOnlyWhenUnauthenticated ==
    \A s \in Sessions : ui[s].page = "login" => token_info[s] = NoToken

\* C2: once a session has exchanged a code successfully it makes no further
\* exchange call and never exchanges a second time, and the step that makes
\* the successful exchange leaves no code in the query parameters.
C2_ExchangeConsumedOnce ==
    [][\A s \in Sessions :
         /\ exchanges'[s].late = 0
         /\ exchanges'[s].ok <= 1
         /\ exchanges'[s].ok > exchanges[s].ok => query_params'[s] = NoCode]_vars

\* C2 witness: a session that has exchanged a code reruns with a code in
\* its URL, and the rerun makes no exchange call.
C2_Witness ==
    \E s \in Sessions :
        /\ exchanges[s].ok = 1
        /\ pc[s] = "done"
        /\ query_params[s] \in Codes
        /\ calls[s].exchange = "none"
        /\ ui[s].page = "main"

\* C3: a run whose exchange call failed leaves the session without a stored
\* credential, shows the authentication error, has halted and has made no
\* metadata request; and no code is ever exchanged successfully twice.
C3_ExchangeFailureHalts ==
    /\ \A s \in Sessions :
         calls[s].exchange = "fail" =>
           /\ token_info[s] = NoToken
           /\ ui[s].page = "stopped"
           /\ "auth" \in ui[s].errors
           /\ pc[s] = "done"
           /\ calls[s].meta_tokens = {}
           /\ calls[s].pages_fetched = 0
           /\ loc[s] = IdleLoc
    /\ \A c \in Codes : grants[c] <= 1

\* C3 witness: a code that was already exchanged is submitted again, in a
\* session without a credential, and the exchange fails.
C3_Witness ==
    \E s \in Sessions :
        /\ calls[s].exchange = "fail"
        /\ query_params[s] \in Codes
        /\ grants[query_params[s]] = 1

\* C4: a run that finds the stored credential past its expiry makes a
\* refresh call, and a run that does not makes none; after a successful
\* refresh the session stores the refreshed credential, which is valid at
\* that moment, and every metadata request of the run carries its access
\* token.
C4_RefreshOnExpiry ==
    \A s \in Sessions :
        /\ calls[s].expired <=> calls[s].refresh # "none"
        /\ calls[s].refresh = "ok" =>
             /\ token_info[s].access_token = calls[s].client
             /\ calls[s].fresh
             /\ calls[s].meta_tokens \subseteq {calls[s].client}

\* C4 witness: a run refreshed an expired credential and then made a
\* metadata request with the refreshed access token.
C4_Witness ==
    \E s \in Sessions :
        /\ calls[s].expired
        /\ calls[s].refresh = "ok"
        /\ calls[s].meta_tokens = {token_info[s].access_token}
        /\ calls[s].pages_fetched >= 1

\* C5: a run whose refresh call failed leaves the session without a stored
\* credential, shows the error and makes no metadata request.
C5_RefreshFailureUnauthenticates ==
    \A s \in Sessions :
        calls[s].refresh = "fail" =>
          /\ token_info[s] = NoToken
          /\ "auth" \in ui[s].errors
          /\ calls[s].meta_tokens = {}

\* C6: no metadata request of a run is made with an access token that is
\* past its expiry at the moment of the request.
C6_NoStaleAccessToken ==
    \A s \in Sessions : ~calls[s].stale_use

\* C7: the listing a run receives for its client and playlist identifier is
\* one the provider serves to that client for that identifier (nothing, when
\* the request fails).
C7_ListingOfOwnCredential ==
    \A s \in Sessions :
        HasListing(s) =>
          loc[s].todas \in
            {<<>>, Flatten(PlaylistPages(loc[s].sp, loc[s].playlist_id))}

\* C8: a listing whose page requests all succeeded made one request per page
\* of the playlist and is the concatenation of the pages in order; while
\* pages remain, the listing holds the concatenation of the pages received
\* so far and goes on.
C8_ListingIsConcatenation ==
    \A s \in Sessions :
        LET pages == PlaylistPages(loc[s].sp, loc[s].playlist_id)
        IN  /\ (HasListing(s) /\ ~calls[s].from_cache /\ "listing" \notin ui[s].errors) =>
                 /\ calls[s].pages_fetched = Len(pages)
                 /\ loc[s].todas = Flatten(pages)
            /\ pc[s] = "listing" =>
                 /\ calls[s].pages_fetched < Len(pages)
                 /\ loc[s].next_page = calls[s].pages_fetched + 1
                 /\ loc[s].musicas = Flatten(SubSeq(pages, 1, calls[s].pages_fetched))

\* C8 witness: a listing of three pages, the second one empty, was received
\* whole.
C8_Witness ==
    \E s \in Sessions :
        /\ HasListing(s)
        /\ ~calls[s].from_cache
        /\ "listing" \notin ui[s].errors
        /\ calls[s].pages_fetched = 3
        /\ Len(loc[s].todas) = 3

\* C9: a run one of whose listing requests failed (or that was served the
\* stored result of such a listing) has shown the error, received the empty
\* listing, raised nothing and stopped: nothing was attempted, no progress
\* was shown, no archive was offered.
C9_ListingFailureHalts ==
    \A s \in Sessions :
        "listing" \in ui[s].errors =>
          /\ pc[s] = "done"
          /\ loc[s].todas = <<>>
          /\ loc[s].todo = <<>>
          /\ ~loc[s].temp_dir
          /\ ui[s].statuses = <<>>
          /\ ui[s].progress = <<>>
          /\ ~ui[s].archive.offered
          /\ ~ui[s].crashed

\* C9 witness: the request of a later page failed after a page had been
\* received.
C9_Witness ==
    \E s \in Sessions :
        /\ "listing" \in ui[s].errors
        /\ ~calls[s].from_cache
        /\ calls[s].pages_fetched >= 2

\* C10: in the download loop every entry up to the current one has a
\* status, a failed acquisition adds no file, the loop reaches the archive
\* decision only with every selected entry processed, and a run never
\* crashes before that.
C10_PerTrackIsolation ==
    \A s \in Sessions :
        /\ pc[s] \in {"loop", "archive"} =>
             /\ Len(ui[s].statuses) = loc[s].i
             /\ Len(loc[s].arquivos) = Count(ui[s].statuses, "success")
             /\ ~ui[s].crashed
        /\ pc[s] = "loop" => loc[s].i < Len(loc[s].todo)
        /\ pc[s] = "archive" => loc[s].i = Len(loc[s].todo)
        /\ ui[s].crashed => Len(ui[s].statuses) = Len(loc[s].todo)

\* C10 witness: the first acquisition raised, the second entry was processed
\* and the run is at the archive decision.
C10_Witness ==
    \E s \in Sessions :
        /\ pc[s] = "archive"
        /\ Len(ui[s].statuses) >= 2
        /\ ui[s].statuses[1] = "error"
        /\ ui[s].statuses[2] = "success"

\* The statuses baixar_musica displays: one acquisition attempt each.
AttemptStatuses == {"success", "not_found", "error"}

\* C11: every processed entry that is a non-null track with a name has had
\* exactly one acquisition attempt and no warning, every other processed
\* entry has had no attempt and exactly one 'skipped' warning; the loop
\* ends without a crash with as many attempts as valid entries and as many
\* warnings as invalid entries selected.
C11_OneAttemptPerValidEntry ==
    \A s \in Sessions :
        LET todo == loc[s].todo
            st == ui[s].statuses
            w == ui[s].warnings
            n == Len(st)
            invalid == {k \in 1..n : todo[k].track = "null" \/ todo[k].name = <<>>}
        IN  /\ n <= Len(todo)
            /\ \A k \in 1..n :
                   IF k \in invalid THEN st[k] = "skipped"
                                    ELSE st[k] \in AttemptStatuses
            /\ Len(w) = Cardinality(invalid)
            /\ \A j \in 1..Len(w) : w[j] \in invalid
            /\ \A j \in 1..Len(w) : \A h \in 1..Len(w) : j < h => w[j] < w[h]
            /\ pc[s] = "archive" => n = Len(todo) /\ ~ui[s].crashed

\* C11 witness: a selection with a track and a removed entry has been
\* processed whole: one attempt, one warning.
C11_Witness ==
    \E s \in Sessions :
        /\ pc[s] = "archive"
        /\ loc[s].todo = <<T1, TNull>>
        /\ ui[s].statuses[1] \in AttemptStatuses
        /\ ui[s].statuses[2] = "skipped"
        /\ ui[s].warnings = <<2>>

\* C12: with cap N and a listing of L entries, the entries selected are the
\* first min(N, L) entries of the listing when N > 0 and all L when N = 0,
\* in playlist order; the k-th entry processed is the k-th entry of the
\* listing and no entry beyond the selection is processed.
C12_CapSelectsPrefix ==
    \A s \in Sessions :
        HasListing(s) =>
          LET todas == loc[s].todas
              L == Len(todas)
              N == loc[s].limite
              T == IF N > 0 THEN (IF N < L THEN N ELSE L) ELSE L
              st == ui[s].statuses
          IN  /\ Len(loc[s].todo) = T
              /\ \A k \in 1..T : loc[s].todo[k] = todas[k]
              /\ Len(st) <= T
              /\ loc[s].i = Len(st)
              /\ \A k \in 1..Len(st) :
                     st[k] = "skipped" <=>
                       (todas[k].track = "null" \/ todas[k].name = <<>>)
              /\ pc[s] = "archive" => Len(st) = T

\* C12 witness: a cap of 2 on a listing of 3 entries, both processed.
C12_Witness ==
    \E s \in Sessions :
        /\ pc[s] = "archive"
        /\ loc[s].limite = 2
        /\ Len(loc[s].todas) = 3
        /\ Len(ui[s].statuses) = 2

\* C12 witness of the cap above the length: a cap of 3 on a listing of 2.
C12_WitnessCapAboveLength ==
    \E s \in Sessions :
        /\ pc[s] = "archive"
        /\ loc[s].limite = 3
        /\ Len(loc[s].todas) = 2
        /\ Len(ui[s].statuses) = 2

\* The run of session s has left the download loop and the archive decision.
Decided(s) == pc[s] \in {"release", "done"} /\ loc[s].todo # <<>>

\* C13 as stated: a run that has decided offers an archive if and only if
\* at least one acquisition succeeded.
C13_ArchiveIffSuccess ==
    \A s \in Sessions :
        Decided(s) =>
          (ui[s].archive.offered <=> Count(ui[s].statuses, "success") >= 1)

\* C13, amended: an archive is offered only when at least one acquisition
\* succeeded and every selected entry has been attempted or skipped; a run
\* in which none succeeded offers no archive and reports 'nothing to
\* archive'; a run in which one succeeded either offers the archive or was
\* ended by an exception of the title request or of the archive write.
C13_ArchiveOnlyAfterSuccess ==
    \A s \in Sessions :
        LET successes == Count(ui[s].statuses, "success")
        IN  /\ ui[s].archive.offered =>
                 /\ successes >= 1
                 /\ Len(ui[s].statuses) = Len(loc[s].todo)
                 /\ Len(ui[s].archive.entries) >= 1
            /\ "nothing" \in ui[s].errors => successes = 0 /\ Decided(s)
            /\ Decided(s) =>
                 IF successes = 0
                 THEN /\ ~ui[s].archive.offered
                      /\ "nothing" \in ui[s].errors
                      /\ ~ui[s].crashed
                 ELSE /\ "nothing" \notin ui[s].errors
                      /\ ui[s].archive.offered <=> ~ui[s].crashed
                      /\ ui[s].crashed <=> ui[s].raised \in {"title", "write"}

\* C13 witness: one acquisition succeeded, all entries were processed, and
\* the title request raised: no archive is offered.
C13_Witness ==
    \E s \in Sessions :
        /\ Decided(s)
        /\ Count(ui[s].statuses, "success") >= 1
        /\ Count(ui[s].statuses, "not_found") >= 1
        /\ ui[s].raised = "title"
        /\ ~ui[s].archive.offered

\* lines 112-113 and 128: the files the acquisitions have left in the
\* directory; acquisitions with the same base name write the same file.
FilesOnDisk(arquivos) == {arquivos[k] : k \in 1..Len(arquivos)}

\* The names line 112 gives to the entries whose acquisition succeeded, in
\* the order processed.
RECURSIVE SuccessNames(_, _)
SuccessNames(todo, st) ==
    IF st = <<>> THEN <<>>
    ELSE LET k == Len(st)
             rest == SuccessNames(todo, SubSeq(st, 1, k - 1))
         IN  IF st[k] = "success"
             THEN Append(rest, limpar_nome(todo[k].artist) \o <<" - ">> \o
                               limpar_nome(todo[k].name) \o <<".mp3">>)
             ELSE rest

\* C14: an offered archive has one entry per successful acquisition, named
\* 'sanitize(artist) - sanitize(title).mp3' after its track, and its
\* entries are in one-to-one correspondence with the files downloaded:
\* as many entries as files, no two entries with the same name.
C14_ArchiveOneEntryPerFile ==
    \A s \in Sessions :
        ui[s].archive.offered =>
          LET entries == ui[s].archive.entries
          IN  /\ Len(entries) = Count(ui[s].statuses, "success")
              /\ entries = SuccessNames(loc[s].todo, ui[s].statuses)
              /\ Len(entries) = Cardinality(FilesOnDisk(loc[s].arquivos))
              /\ \A j \in 1..Len(entries) : \A k \in 1..Len(entries) :
                     entries[j] = entries[k] => j = k

\* C14 without the correspondence to files: an offered archive has one
\* entry per successful acquisition, each named after its track.
C14_EntryPerSuccess ==
    \A s \in Sessions :
        ui[s].archive.offered =>
          /\ Len(ui[s].archive.entries) = Count(ui[s].statuses, "success")
          /\ ui[s].archive.entries = SuccessNames(loc[s].todo, ui[s].statuses)

\* C15: for a URL that is '...playlist/{id}' or '...playlist/{id}?query',
\* with id non-empty and free of '/' and '?', get_playlist_id returns id.
C15_PlaylistUrlGivesId ==
    (arg.fn = "get_playlist_id" /\ arg.v.kind = "str" /\ ret # Pending) =>
      LET u == arg.v.s
      IN  \A i \in 2..Len(u) : \A j \in (i + 1)..Len(u) :
            LET id == SubSeq(u, i + 1, j)
            IN  (/\ u[i - 1] = "playlist"
                 /\ u[i] = "/"
                 /\ \A k \in 1..Len(id) : id[k] \notin {"/", "?"}
                 /\ j = Len(u) \/ u[j + 1] = "?")
                => ret = Str(id)

\* C16: get_playlist_id raises nothing, and returns None when its input is
\* the empty string or is not a string.
C16_AbsentOnEmptyOrNonString ==
    (arg.fn = "get_playlist_id" /\ ret # Pending) =>
      /\ ret.kind # "raise"
      /\ (arg.v.kind # "str" \/ arg.v.s = <<>>) => ret = None

\* C17: limpar_nome(s) holds none of the characters \ / * ? : " < > | ,
\* is s without exactly those characters (the others unchanged and in
\* order), and is no longer than s.
C17_SanitizeRemovesReserved ==
    (arg.fn = "limpar_nome" /\ ret # Pending) =>
      LET s == arg.v.s
          r == ret.s
          reserved == {"\\", "/", "*", "?", ":", "\"", "<", ">", "|"}
          kept == {k \in 1..Len(s) : s[k] \notin reserved}
      IN  /\ ret.kind = "str"
          /\ \A j \in 1..Len(r) : r[j] \notin reserved
          /\ Len(r) = Cardinality(kept)
          /\ \A k \in kept : r[Cardinality({m \in kept : m <= k})] = s[k]
          /\ Len(r) <= Len(s)

\* C17 witness: a name with reserved characters around a letter has been
\* sanitized to the letter.
C17_Witness ==
    /\ arg.fn = "limpar_nome"
    /\ arg.v.s = <<"/", "a", "?">>
    /\ ret = Str(<<"a">>)

\* C16, the part about start(): a run that reported the validation error
\* has stopped without a metadata request.
C16_ValidationMakesNoRequest ==
    \A s \in Sessions :
        "validation" \in ui[s].errors =>
          /\ pc[s] = "done"
          /\ calls[s].meta_tokens = {}
          /\ calls[s].pages_fetched = 0
          /\ loc[s] = IdleLoc

\* C18: a run over T selected entries has reported one progress fraction
\* per entry processed, whatever its status; the k-th is k/T, each is
\* greater than the one before, and a fraction is 1 only when it is the
\* T-th: the loop ends with T fractions, the last one 1.
C18_ProgressSequence ==
    \A s \in Sessions :
        LET pr == ui[s].progress
            T == Len(loc[s].todo)
        IN  /\ Len(pr) = Len(ui[s].statuses)
            /\ \A k \in 1..Len(pr) :
                   /\ pr[k] = <<k, T>>
                   /\ pr[k][1] = pr[k][2] <=> k = T
                   /\ k > 1 => pr[k - 1][1] * pr[k][2] < pr[k][1] * pr[k - 1][2]
            /\ pc[s] = "loop" => Len(pr) = loc[s].i /\ Len(pr) < T
            /\ pc[s] = "archive" => Len(pr) = T /\ pr[T][1] = pr[T][2]

\* C18 witness: three entries, one not found, one skipped and one
\* downloaded: the fractions 1/3, 2/3, 3/3.
C18_Witness ==
    \E s \in Sessions :
        /\ pc[s] = "archive"
        /\ ui[s].statuses = <<"not_found", "skipped", "success">>
        /\ ui[s].progress = << <<1, 3>>, <<2, 3>> , <<3, 3>> >>

\* C19: the run has its temporary directory exactly while it is inside the
\* block (loop, archive decision, leaving the block), every file it
\* downloaded and the archive it offers were written into that directory,
\* the directory is gone once the run has left the block, however it left
\* it, and the step that hands the archive to the download button is taken
\* with the directory in place and leaves it in place.
C19_TempDirScoped ==
    [][\A s \in Sessions :
         /\ loc'[s].temp_dir <=> pc'[s] \in {"loop", "archive", "release"}
         /\ \A k \in 1..Len(loc'[s].arquivos) : loc'[s].arquivos[k].dir = "tmp"
         /\ ui'[s].archive.offered => ui'[s].archive.dir = "tmp"
         /\ (ui'[s].archive.offered /\ ~ui[s].archive.offered) =>
              loc[s].temp_dir /\ loc'[s].temp_dir
         /\ (pc[s] = "release" /\ pc'[s] # "release") =>
              pc'[s] = "done" /\ ~loc'[s].temp_dir]_vars

\* C19 witness: the archive write raised, the run has left the block and
\* the directory with the downloaded file is gone.
C19_Witness ==
    \E s \in Sessions :
        /\ pc[s] = "done"
        /\ ui[s].raised = "write"
        /\ Len(loc[s].arquivos) >= 1
        /\ ~loc[s].temp_dir

\* C20: a run whose listing was served from the cache was not served the
\* empty result of a listing that failed: for such a result the run makes a
\* fresh request to the provider.
C20_FailedListingNotMemoized ==
    \A s \in Sessions :
        calls[s].from_cache =>
          /\ ~cache[CacheKey(loc[s].sp, loc[s].playlist_id)].error
          /\ "listing" \notin ui[s].errors

====
